---- MODULE Spec2Model ----
(***************************************************************************)
(* Model of src/lexer.py: the Lexer (a generator of tokens over a type     *)
(* expression string) and the recursive-descent Parser that turns a token  *)
(* list into a JSON-Schema fragment, composed as in                        *)
(* WebsiteParser._parse_property (src/main.py) and lexer.py's __main__.    *)
(*                                                                         *)
(* A Python str is modelled as a sequence of one-character strings, so     *)
(* that indexing, lower() and concatenation are computed, not assumed.     *)
(***************************************************************************)
EXTENDS Integers, Sequences, FiniteSets, TLC

(***************************************************************************)
(* Bounds of the model.                                                    *)
(***************************************************************************)
\* longest source string, counted in pieces (words or single characters)
MaxPieces == 3
\* longest token list handed directly to Parser.parse
MaxTokens == 3
\* depth of nested Parser.type calls at which the interpreter gives up
\* (CPython's recursion limit, scaled down)
RecursionLimit == 6

(***************************************************************************)
(* Characters.                                                             *)
(***************************************************************************)
\* chr(0): the lexer's end-of-input sentinel, and the same character when
\* it stands in a source string
NUL == "\\0"
\* a letter outside ASCII: str.isalpha() is true of it, and it is not in
\* string.ascii_letters
E_ACUTE == "e-acute"
\* value of an attribute that was never assigned
Unset == "<unset>"
\* the same for an attribute that holds a str or a list once assigned, for
\* one that holds an int, and for the fragment parse has not returned yet
UnsetSequence == << Unset >>
UnsetCursor == -2
UnsetFragment == [ type |-> Unset ]
\* Python's None
None == "<None>"

LowerSeq ==
  << "a", "b", "c", "d", "e", "f", "g", "h", "i", "j", "k", "l", "m",
     "n", "o", "p", "q", "r", "s", "t", "u", "v", "w", "x", "y", "z" >>
UpperSeq ==
  << "A", "B", "C", "D", "E", "F", "G", "H", "I", "J", "K", "L", "M",
     "N", "O", "P", "Q", "R", "S", "T", "U", "V", "W", "X", "Y", "Z" >>

ascii_lowercase == { LowerSeq[i] : i \in 1..26 }
ascii_uppercase == { UpperSeq[i] : i \in 1..26 }
\* string.ascii_letters
ascii_letters == ascii_lowercase \cup ascii_uppercase
\* string.whitespace == ' \t\n\r\x0b\x0c'
whitespace == { " ", "\t", "\n", "\r", "\\x0b", "\f" }
Digits == { "0", "1", "2", "3", "4", "5", "6", "7", "8", "9" }

\* str.isalpha() of a one-character string
isalpha(c) == c \in ascii_letters \cup { E_ACUTE }

\* str.lower() and str.upper() of a one-character string
lower_char(c) ==
  IF c \in ascii_uppercase
    THEN LowerSeq[CHOOSE i \in 1..26 : UpperSeq[i] = c]
    ELSE c
upper_char(c) ==
  IF c \in ascii_lowercase
    THEN UpperSeq[CHOOSE i \in 1..26 : LowerSeq[i] = c]
    ELSE c
\* str.lower() without the conversion: what a lexer that forgot .lower() sees
lower_identity(s) == s
\* str.lower()
lower(s) == [ i \in 1..Len(s) |-> lower_char(s[i]) ]

(***************************************************************************)
(* Tokens and the two tables.                                              *)
(***************************************************************************)
TokenType ==
  { "STRING", "INTEGER", "LONG", "FLOAT", "DOUBLE", "BOOLEAN", "LIST", "MAP",
    "CUSTOM", "EOF", "LPARREN", "RPARREN", "UNKNOWN" }

Token(type, value, position) ==
  [ type |-> type, value |-> value, position |-> position ]

\* an exception, with the position and character its message carries
Raised(name, position, character) ==
  [ name |-> name, position |-> position, character |-> character ]
\* no exception, and no token
NoException == Raised(Unset, UnsetCursor, Unset)
NoToken == Token(Unset, UnsetSequence, UnsetCursor)

K_string  == << "s", "t", "r", "i", "n", "g" >>
K_int     == << "i", "n", "t" >>
K_long    == << "l", "o", "n", "g" >>
K_float   == << "f", "l", "o", "a", "t" >>
K_double  == << "d", "o", "u", "b", "l", "e" >>
K_boolean == << "b", "o", "o", "l", "e", "a", "n" >>
K_list    == << "l", "i", "s", "t" >>
K_map     == << "m", "a", "p" >>

\* the keyword table handed to Lexer.__init__
token_mapping ==
  { << K_string, "STRING" >>, << K_int, "INTEGER" >>, << K_long, "LONG" >>,
    << K_float, "FLOAT" >>, << K_double, "DOUBLE" >>,
    << K_boolean, "BOOLEAN" >>, << K_list, "LIST" >>, << K_map, "MAP" >> }

PrimitiveKeywords ==
  { K_string, K_int, K_long, K_float, K_double, K_boolean }
Keywords == { kv[1] : kv \in token_mapping }

\* dict.get(key, default) on a table given as a set of pairs
DictGet(table, key, default) ==
  IF \E kv \in table : kv[1] = key
    THEN (CHOOSE kv \in table : kv[1] = key)[2]
    ELSE default

\* the primitive table handed to Parser.__init__
CONVERT ==
  { << "STRING", "string" >>, << "INTEGER", "integer" >>,
    << "LONG", "integer" >>, << "FLOAT", "number" >>,
    << "DOUBLE", "number" >>, << "BOOLEAN", "boolean" >> }

(***************************************************************************)
(* Lexer.  self is the record of the instance's attributes                 *)
(* [string, curser, current_char].  Where a statement assigns a value that *)
(* later statements read more than once, the value is bound once as the    *)
(* element of a singleton: CHOOSE x \in { f(v) : v \in { e } } : TRUE is    *)
(* f(e) with e evaluated a single time.                                    *)
(***************************************************************************)
\* a cursor that walks off the end of the string instead of staying on
\* the last index
_get_next_char_unguarded(self) ==
  [ self EXCEPT !.curser = @ + 1,
                !.current_char = IF self.curser + 1 < Len(self.string)
                                   THEN self.string[self.curser + 2]
                                   ELSE NUL ]

_get_next_char(self) ==
  IF self.curser + 1 < Len(self.string)
    THEN [ self EXCEPT !.curser = @ + 1,
                       !.current_char = self.string[self.curser + 2] ]
    ELSE [ self EXCEPT !.current_char = NUL ]

RECURSIVE _get_next_string_loop(_, _)
_get_next_string_loop(self, string_token) ==
  LET grown == Append(string_token, self.current_char)
      next  == _get_next_char(self)
  IN  IF next.current_char \notin ascii_letters
        THEN [ self |-> next, string_token |-> grown ]
        ELSE CHOOSE run \in { _get_next_string_loop(n, g) :
                                 n \in { next }, g \in { grown } } : TRUE

_get_next_string(self) == _get_next_string_loop(self, << >>)

\* a skip loop that treats only whitespace as a separator
RECURSIVE skip_whitespace_only(_)
skip_whitespace_only(self) ==
  IF self.current_char \in whitespace
    THEN CHOOSE s \in { skip_whitespace_only(n) :
                           n \in { _get_next_char(self) } } : TRUE
    ELSE self

RECURSIVE skip_separators(_)
skip_separators(self) ==
  IF self.current_char \in whitespace \/ self.current_char = ","
    THEN CHOOSE s \in { skip_separators(n) :
                           n \in { _get_next_char(self) } } : TRUE
    ELSE self

\* lines 86-89: the token of the run r that _get_next_string has read, and
\* the _get_next_char after it
identifier(r) ==
  [ self |-> _get_next_char(r.self), raised |-> FALSE,
    token |-> Token(DictGet(token_mapping, lower(r.string_token), "CUSTOM"),
                    r.string_token, r.self.curser) ]

\* the same without the _get_next_char that consumes a bracket
token_at_bracket_kept(s) ==
  LET c == s.current_char
  IN  IF c = NUL
        THEN [ self |-> _get_next_char(s), raised |-> FALSE,
               token |-> Token("EOF", << c >>, s.curser) ]
      ELSE IF c = "["
        THEN [ self |-> s, raised |-> FALSE,
               token |-> Token("LPARREN", << c >>, s.curser) ]
      ELSE IF c = "]"
        THEN [ self |-> s, raised |-> FALSE,
               token |-> Token("RPARREN", << c >>, s.curser) ]
      ELSE IF isalpha(c)
        THEN CHOOSE got \in { identifier(r) : r \in { _get_next_string(s) } } :
               TRUE
      ELSE [ self |-> s, raised |-> TRUE,
             exception |-> Raised("UnknownCharacterException", s.curser, c) ]

\* lines 72-92: the branches of _get_next_token on the instance s that the
\* skip loop has left
token_at(s) ==
  LET c == s.current_char
  IN  IF c = NUL
        THEN [ self |-> _get_next_char(s), raised |-> FALSE,
               token |-> Token("EOF", << c >>, s.curser) ]
      ELSE IF c = "["
        THEN [ self |-> _get_next_char(s), raised |-> FALSE,
               token |-> Token("LPARREN", << c >>, s.curser) ]
      ELSE IF c = "]"
        THEN [ self |-> _get_next_char(s), raised |-> FALSE,
               token |-> Token("RPARREN", << c >>, s.curser) ]
      ELSE IF isalpha(c)
        THEN CHOOSE got \in { identifier(r) : r \in { _get_next_string(s) } } :
               TRUE
      ELSE [ self |-> s, raised |-> TRUE,
             exception |-> Raised("UnknownCharacterException", s.curser, c) ]

\* the outcome of one call: the instance afterwards, and either the token
\* returned or the exception raised
_get_next_token(self) ==
  CHOOSE got \in { token_at(s) : s \in { skip_separators(self) } } : TRUE

(***************************************************************************)
(* Parser.  self is the record of the instance's attributes                *)
(* [tokens, curser, current_token].                                        *)
(***************************************************************************)
_advance(self) ==
  LET moved == [ self EXCEPT !.curser = @ + 1 ]
  IN  IF moved.curser < Len(moved.tokens)
        THEN [ moved EXCEPT !.current_token = moved.tokens[moved.curser + 1] ]
        ELSE moved

\* parse starting the cursor at 0, so that its _advance skips the first
\* token
parse_from_zero(self, tokens_) ==
  _advance([ self EXCEPT !.tokens = tokens_, !.curser = 0 ])

\* the instance after the first two statements and the _advance of parse
parse(self, tokens_) ==
  _advance([ self EXCEPT !.tokens = tokens_, !.curser = -1 ])

\* "#/definitions/"
DefinitionsPrefix ==
  << "#", "/", "d", "e", "f", "i", "n", "i", "t", "i", "o", "n", "s", "/" >>

\* the fragments: what array, map, custom and the last line of type return,
\* given the fragment of the inner type where there is one
\* array returning the fragment of map: the two rules swapped
array_as_object(items) == [ type |-> "object", additionalProperties |-> items ]
array_fragment(items) == [ type |-> "array", items |-> items ]
map_fragment(inner) == [ type |-> "object", additionalProperties |-> inner ]
custom(self) == ("$ref" :> DefinitionsPrefix \o self.current_token.value)
\* the primitive rule with a default that names the kind instead of None
primitive_named_default(self) ==
  [ type |-> DictGet(CONVERT, self.current_token.type,
                     self.current_token.type) ]
primitive(self) ==
  [ type |-> DictGet(CONVERT, self.current_token.type, None) ]

\* the returns of the pending array and map calls, innermost first
RECURSIVE unwind(_, _)
unwind(stack_, fragment) ==
  IF stack_ = << >>
    THEN fragment
    ELSE unwind(SubSeq(stack_, 1, Len(stack_) - 1),
                IF stack_[Len(stack_)] = "array"
                  THEN array_fragment(fragment)
                  ELSE map_fragment(fragment))

(***************************************************************************)
(* Inputs.                                                                 *)
(***************************************************************************)
RECURSIVE Flatten(_)
Flatten(pieces) ==
  IF pieces = << >> THEN << >> ELSE Head(pieces) \o Flatten(Tail(pieces))

W_List   == << "L", "i", "s", "t" >>
W_Map    == << "M", "a", "p" >>
W_String == << "S", "t", "r", "i", "n", "g" >>
W_Foo    == << "F", "o", "o" >>

\* the pieces source strings are built from: keywords, a custom name, a
\* single letter, the brackets, separators, and characters that start no token
Pieces ==
  { W_List, W_Map, K_int, W_Foo, << "b" >>, << "[" >>, << "]" >>, << " " >>,
    << "\t" >>, << "," >>, << "3" >>, << "-" >>, << E_ACUTE >>, << NUL >> }

BoundedSources ==
  { Flatten(ps) : ps \in UNION { [1..k -> Pieces] : k \in 0..MaxPieces } }

\* every upper/lower-casing of a word
Casings(k) ==
  { [ i \in 1..Len(k) |-> IF up[i] THEN upper_char(k[i]) ELSE k[i] ] :
      up \in [1..Len(k) -> BOOLEAN] }

\* "List[p]"
ListOf(p) == W_List \o << "[" >> \o p \o << "]" >>
\* "Map[String, Map[String, string]]"
MapOfMapSource ==
  W_Map \o << "[" >> \o W_String \o << ",", " " >> \o W_Map \o << "[" >>
    \o W_String \o << ",", " " >> \o K_string \o << "]", "]" >>
\* "SomeCustomType"
SomeCustomType ==
  << "S", "o", "m", "e", "C", "u", "s", "t", "o", "m", "T", "y", "p", "e" >>
\* "int32"
Int32Source == K_int \o << "3", "2" >>
\* "List string]"
ListMissingBracket == W_List \o << " " >> \o K_string \o << "]" >>

NamedSources ==
  UNION { Casings(k) : k \in Keywords }
    \cup { ListOf(p) : p \in PrimitiveKeywords }
    \cup { MapOfMapSource, SomeCustomType, Int32Source, ListMissingBracket }

Sources == BoundedSources \cup NamedSources

\* token lists that no lexer run need have produced: one token per kind
KindTokens == { Token(t, << "x" >>, 0) : t \in TokenType }
BoundedTokenLists == UNION { [1..k -> KindTokens] : k \in 0..MaxTokens }

\* the token lists of the bracketed shape LIST [ ... ] and MAP [ ... ] around
\* a bounded token list
BracketedTokenLists ==
  { << Token(r, << "x" >>, 0), Token("LPARREN", << "[" >>, 0) >> \o inner
      \o << Token("RPARREN", << "]" >>, 0) >> :
      r \in { "LIST", "MAP" },
      inner \in UNION { [1..k -> KindTokens] : k \in 1..(MaxTokens - 1) } }

TokenLists == BoundedTokenLists \cup BracketedTokenLists

(***************************************************************************)
(* State.                                                                  *)
(***************************************************************************)
VARIABLES
  string_,        \* the argument of lex_string, or Unset when parse is
                  \* called on a token list directly
  direct,         \* the token list parse is called on directly, or Unset
  string,         \* Lexer.string
  curser,         \* Lexer.curser
  current_char,   \* Lexer.current_char
  gen_pc,         \* the generator lex_string returned: "none", "created",
                  \* "suspended" (at the yield), "finished", "raised"
  yielded,        \* the tokens the generator has yielded so far
  exception,      \* the exception that ended the run, or NoException
  tokens,         \* Parser.tokens
  parser_curser,  \* Parser.curser
  current_token,  \* Parser.current_token
  stack,          \* the array/map calls of the parser that have not returned
  parser_pc,      \* "idle", "type" (about to run Parser.type), "returned",
                  \* "raised"
  result,         \* the fragment parse returned, or UnsetFragment
  history,        \* the calls made before the current one on the same
                  \* instance, each with its argument and how it ended
  other           \* a second generator, lex_string called once more while
                  \* the first is still held, or NoOther

vars ==
  << string_, direct, string, curser, current_char, gen_pc, yielded,
     exception, tokens, parser_curser, current_token, stack, parser_pc,
     result, history, other >>

lexer_vars == << string, curser, current_char, gen_pc, yielded >>
parser_vars ==
  << tokens, parser_curser, current_token, stack, parser_pc, result >>
\* what a run of one call on one instance never touches
calls_vars == << history, other >>

\* no second generator
NoOther == [ gen_pc |-> "none" ]

\* Lexer(token_mapping) and Parser(CONVERT) just constructed: __init__ stores
\* the table and assigns no other attribute
Constructed ==
  /\ \/ string_ \in Sources /\ direct = Unset /\ gen_pc = "created"
     \/ string_ = Unset /\ direct \in TokenLists /\ gen_pc = "none"
  /\ string = UnsetSequence
  /\ curser = UnsetCursor
  /\ current_char = Unset
  /\ yielded = << >>
  /\ exception = NoException
  /\ tokens = UnsetSequence
  /\ parser_curser = UnsetCursor
  /\ current_token = NoToken
  /\ stack = << >>
  /\ parser_pc = "idle"
  /\ result = UnsetFragment
  /\ history = << >>

\* one call, and no second generator
Init ==
  /\ Constructed
  /\ other = NoOther

(***************************************************************************)
(* The generator lex_string, one action per next() on it.                  *)
(***************************************************************************)
\* the loop of lex_string from a call of _get_next_token to the next yield,
\* to the end of the generator, or to the exception
pull(self) ==
  \E got \in { _get_next_token(self) } :
      /\ string' = got.self.string
      /\ curser' = got.self.curser
      /\ current_char' = got.self.current_char
      /\ IF got.raised
           THEN /\ gen_pc' = "raised"
                /\ exception' = got.exception
                /\ yielded' = yielded
         ELSE IF got.token.type = "EOF"
           THEN /\ gen_pc' = "finished"
                /\ UNCHANGED << exception, yielded >>
         ELSE /\ gen_pc' = "suspended"
              /\ yielded' = Append(yielded, got.token)
              /\ UNCHANGED exception

\* a lex_string that leaves the cursor where an earlier call left it
lex_string_begins_cursor_kept ==
  LET kept == IF curser = UnsetCursor THEN 0 ELSE curser
  IN  [ string |-> string_, curser |-> kept,
        current_char |-> IF kept < Len(string_)
                           THEN string_[kept + 1]
                           ELSE NUL ]

\* lines 47-49: the instance as the body leaves it before the loop
lex_string_begins ==
  [ string |-> string_, curser |-> 0, current_char |-> string_[1] ]

\* the first next(): the body runs from its first statement
lex_string ==
  /\ gen_pc = "created"
  /\ IF Len(string_) = 0
       THEN \* self.string[0] on the empty string
            /\ string' = string_
            /\ curser' = 0
            /\ UNCHANGED << current_char, yielded >>
            /\ gen_pc' = "raised"
            /\ exception' = Raised("IndexError", 0, Unset)
       ELSE pull(lex_string_begins)
  /\ UNCHANGED << string_, direct >>
  /\ UNCHANGED parser_vars
  /\ UNCHANGED calls_vars

\* a later next(): the body resumes after the yield
lex_string_resume ==
  /\ gen_pc = "suspended"
  /\ pull([ string |-> string, curser |-> curser,
            current_char |-> current_char ])
  /\ UNCHANGED << string_, direct >>
  /\ UNCHANGED parser_vars
  /\ UNCHANGED calls_vars

(***************************************************************************)
(* Parser.parse, one action per call of Parser.type.                       *)
(***************************************************************************)
parser_self ==
  [ tokens |-> tokens, curser |-> parser_curser,
    current_token |-> current_token ]

\* the assignments to the instance, and the call of type that comes next
parser_becomes(self) ==
  /\ tokens' = self.tokens
  /\ parser_curser' = self.curser
  /\ current_token' = self.current_token

\* token = list(self.lexer.lex_string(...)); self.parser.parse(token):
\* list() has run the generator to its end
parse_lexed ==
  /\ gen_pc = "finished"
  /\ parser_pc = "idle"
  /\ parser_becomes(parse(parser_self, yielded))
  /\ parser_pc' = "type"
  /\ UNCHANGED << string_, direct, exception, stack, result >>
  /\ UNCHANGED lexer_vars
  /\ UNCHANGED calls_vars

\* parse called on a token list of the caller's own making
parse_direct ==
  /\ gen_pc = "none"
  /\ parser_pc = "idle"
  /\ parser_becomes(parse(parser_self, direct))
  /\ parser_pc' = "type"
  /\ UNCHANGED << string_, direct, exception, stack, result >>
  /\ UNCHANGED lexer_vars
  /\ UNCHANGED calls_vars

\* type reads self.current_token, which no statement has assigned
type_unset ==
  /\ parser_pc = "type"
  /\ current_token.type = Unset
  /\ parser_pc' = "raised"
  /\ exception' = Raised("AttributeError", parser_curser, Unset)
  /\ UNCHANGED << string_, direct, tokens, parser_curser, current_token,
                  stack, result >>
  /\ UNCHANGED lexer_vars
  /\ UNCHANGED calls_vars

\* array or map insisting on the opening bracket after LIST or MAP
type_nested_strict(rule) ==
  /\ parser_pc = "type"
  /\ parser_becomes(_advance(parser_self))
  /\ stack' = Append(stack, rule)
  /\ IF _advance(parser_self).current_token.type # "LPARREN"
       THEN /\ parser_pc' = "raised"
            /\ exception' = Raised("MalformedTokenStream", parser_curser + 1,
                                   Unset)
       ELSE /\ parser_pc' = "type"
            /\ UNCHANGED exception
  /\ UNCHANGED << string_, direct, result >>
  /\ UNCHANGED lexer_vars
  /\ UNCHANGED calls_vars

\* array or map (rule is "array" or "object") advances and calls type again
type_nested(rule) ==
  /\ parser_pc = "type"
  /\ parser_becomes(_advance(parser_self))
  /\ stack' = Append(stack, rule)
  /\ IF Len(stack) + 2 > RecursionLimit
       THEN /\ parser_pc' = "raised"
            /\ exception' = Raised("RecursionError", parser_curser + 1, Unset)
       ELSE /\ parser_pc' = "type"
            /\ UNCHANGED exception
  /\ UNCHANGED << string_, direct, result >>
  /\ UNCHANGED lexer_vars
  /\ UNCHANGED calls_vars

type_array ==
  /\ current_token.type = "LIST"
  /\ type_nested("array")

type_map ==
  /\ current_token.type = "MAP"
  /\ type_nested("object")

\* type returns a fragment, and so does every pending array and map
type_returns(fragment) ==
  /\ parser_pc = "type"
  /\ result' = unwind(stack, fragment)
  /\ stack' = << >>
  /\ parser_pc' = "returned"
  /\ UNCHANGED << string_, direct, exception, tokens, parser_curser,
                  current_token >>
  /\ UNCHANGED lexer_vars
  /\ UNCHANGED calls_vars

type_custom ==
  /\ current_token.type = "CUSTOM"
  /\ type_returns(custom(parser_self))

type_primitive ==
  /\ current_token.type \notin { Unset, "LIST", "MAP", "CUSTOM" }
  /\ type_returns(primitive(parser_self))

Next ==
  \/ lex_string
  \/ lex_string_resume
  \/ parse_lexed
  \/ parse_direct
  \/ type_unset
  \/ type_array
  \/ type_map
  \/ type_custom
  \/ type_primitive

Spec == Init /\ [][Next]_vars

\* what every next() on the generator changes
gen_vars == << gen_pc, yielded >>

\* list(...) keeps calling next() on the generator until it ends or raises
FairSpec == Spec /\ WF_gen_vars(lex_string \/ lex_string_resume)

(***************************************************************************)
(* One Parser for several calls, as WebsiteParser keeps one for all the    *)
(* properties it reads: parse is called on a token list, then on a second  *)
(* one, then on the first list again.                                      *)
(***************************************************************************)
\* the token lists of the calls
ReuseTokenLists == { t \in TokenLists : Len(t) < MaxTokens }

\* how a call that is over ended
outcome ==
  [ tokens |-> direct, parser_pc |-> parser_pc, result |-> result,
    exception |-> exception ]

\* parse called once more on the same instance, on tokens_
parse_again(tokens_) ==
  /\ gen_pc = "none"
  /\ parser_pc \in { "returned", "raised" }
  /\ history' = Append(history, outcome)
  /\ direct' = tokens_
  /\ parser_becomes(parse(parser_self, tokens_))
  /\ parser_pc' = "type"
  /\ stack' = << >>
  /\ result' = UnsetFragment
  /\ exception' = NoException
  /\ UNCHANGED << string_, other >>
  /\ UNCHANGED lexer_vars

parse_second ==
  /\ Len(history) = 0
  /\ \E tokens_ \in ReuseTokenLists : parse_again(tokens_)

parse_first_again ==
  /\ Len(history) = 1
  /\ parse_again(history[1].tokens)

ParserReuseInit ==
  /\ Init
  /\ gen_pc = "none"
  /\ direct \in ReuseTokenLists

ParserReuseNext ==
  \/ parse_direct
  \/ parse_second
  \/ parse_first_again
  \/ type_unset
  \/ type_array
  \/ type_map
  \/ type_custom
  \/ type_primitive

ParserReuseSpec == ParserReuseInit /\ [][ParserReuseNext]_vars

(***************************************************************************)
(* One Lexer for several calls, as WebsiteParser keeps one for all the     *)
(* properties it reads: lex_string(s) is consumed to its end, then a       *)
(* second source is lexed and consumed to its end, to its exception, or    *)
(* given up at a yield, then lex_string(s) is called again.                *)
(***************************************************************************)
\* the sources of the first call, and those of the call in between
ReuseSources ==
  { Flatten(ps) : ps \in UNION { [1..k -> Pieces] : k \in 0..(MaxPieces - 1) } }
    \cup { ListOf(K_int), Int32Source, ListMissingBracket }
EarlierSources ==
  { << >> } \cup Pieces \cup { ListOf(K_int), Int32Source, MapOfMapSource }

\* how far the generator of a call came and what it gave
lex_outcome ==
  [ string_ |-> string_, gen_pc |-> gen_pc, yielded |-> yielded,
    exception |-> exception ]

\* lex_string called once more on the same instance: the call only makes
\* the generator, and the generator of the call before is dropped
lex_again(source) ==
  /\ history' = Append(history, lex_outcome)
  /\ string_' = source
  /\ gen_pc' = "created"
  /\ yielded' = << >>
  /\ exception' = NoException
  /\ UNCHANGED << string, curser, current_char >>
  /\ UNCHANGED << direct, other >>
  /\ UNCHANGED parser_vars

lex_second ==
  /\ Len(history) = 0
  /\ gen_pc \in { "finished", "raised" }
  /\ \E source \in EarlierSources : lex_again(source)

lex_first_again ==
  /\ Len(history) = 1
  /\ gen_pc \in { "created", "suspended", "finished", "raised" }
  /\ lex_again(history[1].string_)

LexerReuseInit ==
  /\ Init
  /\ gen_pc = "created"
  /\ string_ \in ReuseSources

LexerReuseNext ==
  \/ lex_string
  \/ lex_string_resume
  \/ lex_second
  \/ lex_first_again

LexerReuseSpec == LexerReuseInit /\ [][LexerReuseNext]_vars

(***************************************************************************)
(* Two generators held at once.  lex_string was called twice before either *)
(* generator was consumed: on the same Lexer, whose attributes both bodies *)
(* then read and write, or on two Lexers.  The state of the first          *)
(* generator and of its Lexer is in the variables of the single call, that *)
(* of the second generator in other, with the attributes of a Lexer of its *)
(* own when it has one.                                                    *)
(***************************************************************************)
\* the second generator runs on the Lexer of the first
sharing_always == TRUE

sharing == other.shared

\* self in the body of the second generator
other_self ==
  IF sharing
    THEN [ string |-> string, curser |-> curser,
           current_char |-> current_char ]
    ELSE [ string |-> other.string, curser |-> other.curser,
           current_char |-> other.current_char ]

\* the assignments the body of the second generator has made to self, and
\* where the generator stands
other_becomes(self, pc, yielded_, exception_) ==
  /\ IF sharing
       THEN /\ string' = self.string
            /\ curser' = self.curser
            /\ current_char' = self.current_char
            /\ other' = [ other EXCEPT !.gen_pc = pc, !.yielded = yielded_,
                                       !.exception = exception_ ]
       ELSE /\ UNCHANGED << string, curser, current_char >>
            /\ other' = [ other EXCEPT !.gen_pc = pc, !.yielded = yielded_,
                                       !.exception = exception_,
                                       !.string = self.string,
                                       !.curser = self.curser,
                                       !.current_char = self.current_char ]
  /\ UNCHANGED << string_, direct, gen_pc, yielded, exception, history >>
  /\ UNCHANGED parser_vars

\* pull for the second generator
other_pull(self) ==
  \E got \in { _get_next_token(self) } :
    IF got.raised
      THEN other_becomes(got.self, "raised", other.yielded, got.exception)
    ELSE IF got.token.type = "EOF"
      THEN other_becomes(got.self, "finished", other.yielded,
                         other.exception)
    ELSE other_becomes(got.self, "suspended",
                       Append(other.yielded, got.token), other.exception)

\* the first next() on the second generator
other_lex_string ==
  /\ other.gen_pc = "created"
  /\ IF Len(other.string_) = 0
       THEN other_becomes([ other_self EXCEPT !.string = other.string_,
                                              !.curser = 0 ],
                          "raised", other.yielded,
                          Raised("IndexError", 0, Unset))
       ELSE other_pull([ string |-> other.string_, curser |-> 0,
                         current_char |-> other.string_[1] ])

\* a later next() on the second generator
other_lex_string_resume ==
  /\ other.gen_pc = "suspended"
  /\ other_pull(other_self)

\* the sources of the second generator
OtherSources == EarlierSources \cup { W_Foo \o << " " >> \o W_Map }

InterleaveInit ==
  /\ Constructed
  /\ gen_pc = "created"
  /\ string_ \in ReuseSources
  /\ other \in [ shared : BOOLEAN, string_ : OtherSources,
                  gen_pc : { "created" }, yielded : { << >> },
                  exception : { NoException }, string : { UnsetSequence },
                  curser : { UnsetCursor }, current_char : { Unset } ]

InterleaveNext ==
  \/ lex_string
  \/ lex_string_resume
  \/ other_lex_string
  \/ other_lex_string_resume

InterleaveSpec == InterleaveInit /\ [][InterleaveNext]_vars

(***************************************************************************)
(* Vocabulary of the properties.                                           *)
(***************************************************************************)
\* the run of lex_string was started from a source string
Lexing == gen_pc # "none"
\* the generator was consumed to its end
LexEnded == gen_pc \in { "finished", "raised" }
\* parse was called on the tokens of a source string and returned
ParsedSource == gen_pc = "finished" /\ parser_pc = "returned"

Range(seq) == { seq[i] : i \in 1..Len(seq) }

RECURSIVE Filter(_, _)
\* the elements of seq that are in keep, in order
Filter(seq, keep) ==
  IF seq = << >> THEN << >>
  ELSE IF Head(seq) \in keep
    THEN << Head(seq) >> \o Filter(Tail(seq), keep)
    ELSE Filter(Tail(seq), keep)

RECURSIVE LetterRunsFrom(_, _)
\* the maximal runs of letters of a string, in order (run is the run being
\* read, empty between runs)
LetterRunsFrom(seq, run) ==
  IF seq = << >>
    THEN IF run = << >> THEN << >> ELSE << run >>
  ELSE IF isalpha(Head(seq))
    THEN LetterRunsFrom(Tail(seq), Append(run, Head(seq)))
  ELSE IF run = << >>
    THEN LetterRunsFrom(Tail(seq), << >>)
  ELSE << run >> \o LetterRunsFrom(Tail(seq), << >>)

LetterRuns(seq) == LetterRunsFrom(seq, << >>)

\* the characters the grammar knows: letters, brackets and separators
GrammarCharacters ==
  ascii_letters \cup { E_ACUTE, "[", "]", "," } \cup whitespace
\* printable characters that start no token
StrayCharacters == Digits \cup { "-" }

\* the schema type name of each primitive keyword, as the spec lists them
SchemaTypeOf(p) ==
  CASE p = K_string  -> "string"
    [] p = K_int     -> "integer"
    [] p = K_long    -> "integer"
    [] p = K_float   -> "number"
    [] p = K_double  -> "number"
    [] p = K_boolean -> "boolean"

(***************************************************************************)
(* C1.  "Map[String, Map[String, string]]", tokenized and parsed, gives    *)
(* an object whose additionalProperties is an object whose                 *)
(* additionalProperties is {"type": "string"}: the fragment of the value   *)
(* type of the map, not of its key type.                                   *)
(***************************************************************************)
C1_MapOfMapFragment ==
  (ParsedSource /\ string_ = MapOfMapSource)
    => result = map_fragment(map_fragment([ type |-> "string" ]))

(***************************************************************************)
(* C2.  For each primitive keyword p, "List[p]" tokenizes without an       *)
(* exception and parses, without an exception, to                          *)
(* {"type": "array", "items": {"type": T}}, T the schema type of p.        *)
(***************************************************************************)
C2_ListOfPrimitive ==
  \A p \in PrimitiveKeywords :
    (Lexing /\ string_ = ListOf(p))
      => /\ gen_pc # "raised"
         /\ parser_pc # "raised"
         /\ parser_pc = "returned"
              => result = [ type |-> "array",
                            items |-> [ type |-> SchemaTypeOf(p) ] ]

C2_Witness ==
  /\ ParsedSource
  /\ string_ = ListOf(K_int)
  /\ result = [ type |-> "array", items |-> [ type |-> "integer" ] ]

(***************************************************************************)
(* C3.  In a source of letters, brackets, whitespace and commas, the       *)
(* bracket tokens of a finished tokenization are the brackets of the       *)
(* source, one token for each, in source order.                            *)
(***************************************************************************)
C3_OneTokenPerBracket ==
  (gen_pc = "finished" /\ Range(string_) \subseteq GrammarCharacters)
    => [ i \in 1..Len(Filter(yielded,
                             { t \in Range(yielded) :
                                 t.type \in { "LPARREN", "RPARREN" } }))
           |-> Filter(yielded,
                      { t \in Range(yielded) :
                          t.type \in { "LPARREN", "RPARREN" } })[i].value[1] ]
         = Filter(string_, { "[", "]" })

(***************************************************************************)
(* C4.  A source that holds a digit or a symbol anywhere does not          *)
(* tokenize to the end: the run ends with UnknownCharacterException.       *)
(***************************************************************************)
C4_StrayCharacterRaises ==
  ( /\ Lexing
    /\ LexEnded
    /\ Range(string_) \cap StrayCharacters # { }
    /\ NUL \notin Range(string_) )
    => gen_pc = "raised" /\ exception.name = "UnknownCharacterException"

(***************************************************************************)
(* C5.  For a source of ASCII letters followed by digits, the run ends     *)
(* with UnknownCharacterException, and the exception reports the index of  *)
(* the first digit and that digit.                                         *)
(***************************************************************************)
LettersThenDigits(seq) ==
  \E n \in 1..(Len(seq) - 1) :
    /\ \A i \in 1..n : seq[i] \in ascii_letters
    /\ \A i \in (n + 1)..Len(seq) : seq[i] \in Digits

FirstDigit(seq) == CHOOSE i \in 1..Len(seq) :
  seq[i] \in Digits /\ \A j \in 1..(i - 1) : seq[j] \notin Digits

C5_FirstDigitReported ==
  (Lexing /\ LexEnded /\ LettersThenDigits(string_))
    => /\ gen_pc = "raised"
       /\ exception.name = "UnknownCharacterException"
       /\ exception.position = FirstDigit(string_) - 1
       /\ exception.character = string_[FirstDigit(string_)]

(***************************************************************************)
(* C6.  In a source of letters, brackets, whitespace and commas, the       *)
(* tokens that are not brackets are the maximal runs of letters, one       *)
(* token for each with the run as its text, CUSTOM when the lowercased     *)
(* run is no keyword; and a source that is one such run X parses to        *)
(* {"$ref": "#/definitions/X"}.                                            *)
(***************************************************************************)
C6_CustomTextIsRun ==
  (gen_pc = "finished" /\ Range(string_) \subseteq GrammarCharacters)
    => LET words == Filter(yielded,
                           { t \in Range(yielded) :
                               t.type \notin { "LPARREN", "RPARREN" } })
           runs == LetterRuns(string_)
       IN  /\ Len(words) = Len(runs)
           /\ \A i \in 1..Len(runs) :
                /\ words[i].value = runs[i]
                /\ lower(runs[i]) \notin Keywords
                     => words[i].type = "CUSTOM"
           /\ ( /\ parser_pc = "returned"
                /\ runs = << string_ >>
                /\ lower(string_) \notin Keywords )
                => result = ("$ref" :> DefinitionsPrefix \o string_)

(***************************************************************************)
(* C7.  For each keyword k and each upper/lower-casing c of k, the         *)
(* tokenization of c does not fail and yields exactly one token, of the    *)
(* kind the keyword table gives for k, with c as its text.                 *)
(***************************************************************************)
IsCasingOf(c, k) ==
  /\ Len(c) = Len(k)
  /\ \A i \in 1..Len(k) : c[i] \in { k[i], upper_char(k[i]) }

C7_KeywordAnyCasing ==
  \A kv \in token_mapping :
    (Lexing /\ IsCasingOf(string_, kv[1]))
      => \/ gen_pc = "created"
         \/ /\ gen_pc \in { "suspended", "finished" }
            /\ Len(yielded) = 1
            /\ yielded[1].type = kv[2]
            /\ yielded[1].value = string_

C7_Witness ==
  /\ gen_pc = "finished"
  /\ string_ = << "B", "o", "O", "l", "E", "a", "N" >>
  /\ Len(yielded) = 1
  /\ yielded[1].type = "BOOLEAN"

(***************************************************************************)
(* C8.  The tokenization of the empty string does not fail.                *)
(***************************************************************************)
C8_EmptySourceEndsNormally ==
  (Lexing /\ Len(string_) = 0) => gen_pc # "raised"

(***************************************************************************)
(* C9.  For a source of one or more characters, all of them whitespace     *)
(* or commas, the tokenization yields no token and does not fail: the      *)
(* generator ends at the EOF token.                                        *)
(***************************************************************************)
C9_SeparatorsOnly ==
  ( /\ Lexing
    /\ Len(string_) >= 1
    /\ Range(string_) \subseteq whitespace \cup { "," } )
    => gen_pc \in { "created", "finished" } /\ yielded = << >>

C9_Witness ==
  /\ gen_pc = "finished"
  /\ Len(string_) >= 2
  /\ "," \in Range(string_)
  /\ Range(string_) \cap whitespace # { }
  /\ Range(string_) \subseteq whitespace \cup { "," }
  /\ yielded = << >>

(***************************************************************************)
(* C10.  When the token list is a chain of LIST and MAP tokens with        *)
(* nothing after it, parse neither returns a fragment nor runs on past     *)
(* the end of the list: it fails there with IndexError.                    *)
(***************************************************************************)
C10_TruncatedChainIndexError ==
  ( /\ parser_pc # "idle"
    /\ Len(tokens) >= 1
    /\ \A i \in 1..Len(tokens) : tokens[i].type \in { "LIST", "MAP" }
    /\ parser_curser >= Len(tokens) )
    => parser_pc = "raised" /\ exception.name = "IndexError"

(***************************************************************************)
(* Vocabulary of the grammar: the fragment the grammar of the spec gives   *)
(* a token list, read off the list itself.                                 *)
(***************************************************************************)
PrimitiveKinds ==
  { "STRING", "INTEGER", "LONG", "FLOAT", "DOUBLE", "BOOLEAN" }

\* the schema type of each kind of token: null for the kinds the primitive
\* table does not list
SchemaTypeOfKind(k) ==
  CASE k = "STRING"  -> "string"
    [] k = "INTEGER" -> "integer"
    [] k = "LONG"    -> "integer"
    [] k = "FLOAT"   -> "number"
    [] k = "DOUBLE"  -> "number"
    [] k = "BOOLEAN" -> "boolean"
    [] OTHER         -> None

\* a chain of LIST and MAP tokens, possibly empty, and one CUSTOM or
\* primitive token
CompleteType(T) ==
  /\ Len(T) >= 1
  /\ \A i \in 1..(Len(T) - 1) : T[i].type \in { "LIST", "MAP" }
  /\ T[Len(T)].type \in PrimitiveKinds \cup { "CUSTOM" }

RECURSIVE GrammarFragment(_)
GrammarFragment(T) ==
  IF Head(T).type = "LIST"
    THEN [ type |-> "array", items |-> GrammarFragment(Tail(T)) ]
  ELSE IF Head(T).type = "MAP"
    THEN [ type |-> "object",
           additionalProperties |-> GrammarFragment(Tail(T)) ]
  ELSE IF Head(T).type = "CUSTOM"
    THEN ("$ref" :> DefinitionsPrefix \o Head(T).value)
  ELSE [ type |-> SchemaTypeOfKind(Head(T).type) ]

\* parse was called on a token list directly
ParsingDirect == gen_pc = "none" /\ parser_pc # "idle"

(***************************************************************************)
(* C12.  When the token list starts with a complete type expression T,     *)
(* parse does not fail and returns the fragment of T, whatever tokens      *)
(* follow T, and so the same fragment as for T alone.                      *)
(***************************************************************************)
C12_TrailingTokensIgnored ==
  ParsingDirect =>
    \A n \in 1..Len(direct) :
      CompleteType(SubSeq(direct, 1, n))
        => /\ parser_pc # "raised"
           /\ parser_pc = "returned"
                => result = GrammarFragment(SubSeq(direct, 1, n))

C12_Witness ==
  /\ ParsingDirect
  /\ parser_pc = "returned"
  /\ Len(direct) = 3
  /\ CompleteType(SubSeq(direct, 1, 2))
  /\ direct[1].type = "MAP"
  /\ direct[3].type = "LIST"
  /\ result = GrammarFragment(SubSeq(direct, 1, 2))

(***************************************************************************)
(* C14.  The array and map calls that parse has pending never outnumber    *)
(* the LIST and MAP tokens of the list.                                    *)
(***************************************************************************)
C14_DepthBoundedByTokens ==
  parser_pc # "idle"
    => Len(stack) <= Cardinality({ i \in 1..Len(tokens) :
                                     tokens[i].type \in { "LIST", "MAP" } })

(***************************************************************************)
(* C15.  For the token list LIST [ T ] or MAP [ T ], T a complete type     *)
(* expression, parse returns the array, respectively object, fragment      *)
(* around the fragment of T.                                               *)
(***************************************************************************)
C15_BracketedShape ==
  ( /\ ParsingDirect
    /\ parser_pc = "returned"
    /\ Len(direct) >= 4
    /\ direct[1].type \in { "LIST", "MAP" }
    /\ direct[2].type = "LPARREN"
    /\ direct[Len(direct)].type = "RPARREN"
    /\ CompleteType(SubSeq(direct, 3, Len(direct) - 1)) )
    => result = GrammarFragment(<< direct[1] >>
                                  \o SubSeq(direct, 3, Len(direct) - 1))

(***************************************************************************)
(* C18.  While a non-empty source is tokenized, between any two steps of   *)
(* the generator the cursor is an index of the source and the current      *)
(* character is the character at the cursor or the sentinel; the           *)
(* position and character of an UnknownCharacterException, and the         *)
(* position and text of every bracket token, are a position of the         *)
(* source and the character that stands there.                             *)
(***************************************************************************)
C18_CursorInSource ==
  (Lexing /\ gen_pc # "created" /\ Len(string_) >= 1)
    => /\ string = string_
       /\ curser \in 0..(Len(string_) - 1)
       /\ current_char \in { string_[curser + 1], NUL }
       /\ gen_pc = "raised"
            => /\ exception.name = "UnknownCharacterException"
               /\ exception.position \in 0..(Len(string_) - 1)
               /\ string_[exception.position + 1] = exception.character
       /\ \A i \in 1..Len(yielded) :
            yielded[i].type \in { "LPARREN", "RPARREN" }
              => /\ yielded[i].position \in 0..(Len(string_) - 1)
                 /\ << string_[yielded[i].position + 1] >> = yielded[i].value

C18_Witness ==
  /\ Lexing
  /\ gen_pc = "raised"
  /\ exception.name = "UnknownCharacterException"
  /\ exception.position = 2
  /\ exception.character = "3"
  /\ Len(yielded) = 2
  /\ yielded[1].type = "RPARREN"
  /\ yielded[2].type = "LPARREN"
  /\ yielded[2].position = 1

(***************************************************************************)
(* C19.  When the first token of the list is of a kind other than LIST,    *)
(* MAP and CUSTOM, parse does not fail and returns {"type": t}, t the      *)
(* schema type of the kind, null for LPARREN, RPARREN, UNKNOWN and EOF;    *)
(* and the source "string" parses to {"type": "string"}.                   *)
(***************************************************************************)
C19_PrimitiveOrNull ==
  /\ ( /\ ParsingDirect
       /\ Len(direct) >= 1
       /\ direct[1].type \notin { "LIST", "MAP", "CUSTOM" } )
       => /\ parser_pc # "raised"
          /\ parser_pc = "returned"
               => result = [ type |-> SchemaTypeOfKind(direct[1].type) ]
  /\ (ParsedSource /\ string_ = K_string) => result = [ type |-> "string" ]

C19_Witness ==
  /\ ParsingDirect
  /\ parser_pc = "returned"
  /\ Len(direct) = 2
  /\ direct[1].type = "UNKNOWN"
  /\ result = [ type |-> None ]

(***************************************************************************)
(* C20.  "List string]" tokenizes and parses without an exception to       *)
(* {"type": "array", "items": {"type": "string"}}, the fragment that       *)
(* "List[string]" parses to.                                               *)
(***************************************************************************)
C20_MissingBracketAccepted ==
  (Lexing /\ string_ \in { ListMissingBracket, ListOf(K_string) })
    => /\ gen_pc # "raised"
       /\ parser_pc # "raised"
       /\ parser_pc = "returned"
            => result = [ type |-> "array", items |-> [ type |-> "string" ] ]

C20_Witness ==
  /\ ParsedSource
  /\ string_ = ListMissingBracket
  /\ result = [ type |-> "array", items |-> [ type |-> "string" ] ]

(***************************************************************************)
(* C13.  The tokenization of a non-empty source is finite: it never has    *)
(* yielded more tokens than the source has characters, it comes to the     *)
(* EOF token or to an exception, and from then on nothing is yielded.      *)
(***************************************************************************)
C13_TokenizationEnds ==
  /\ []((Lexing /\ Len(string_) >= 1) => Len(yielded) <= Len(string_))
  /\ ((Lexing /\ Len(string_) >= 1) ~> (Lexing /\ LexEnded))
  /\ [][~(Lexing /\ LexEnded)]_gen_vars

C13_Witness ==
  /\ gen_pc = "finished"
  /\ Len(string_) = 3
  /\ Len(yielded) = 3

(***************************************************************************)
(* C11.  The outcome of parse is a function of the token list: a call on   *)
(* a Parser that has been used before ends as the call on the same list    *)
(* ended on the new Parser, with the same fragment or with a failure too.  *)
(***************************************************************************)
\* the call in progress is over, on the list the first call had
FirstListParsedAgain ==
  /\ gen_pc = "none"
  /\ parser_pc \in { "returned", "raised" }
  /\ Len(history) >= 1
  /\ history[1].tokens = direct

C11_OutcomeOfTokensOnly ==
  FirstListParsedAgain =>
    /\ parser_pc = history[1].parser_pc
    /\ parser_pc = "returned" => result = history[1].result
    /\ parser_pc = "raised" => exception.name = history[1].exception.name

(***************************************************************************)
(* C16.  An earlier call on the same Lexer leaves nothing behind:          *)
(* lex_string(s), consumed to its end after a call that was consumed,      *)
(* given up at a yield or ended by an exception, yields the tokens that    *)
(* lex_string(s) yielded on the new Lexer and ends as it ended there; and  *)
(* the step that raises leaves the tokens yielded before it as they were.  *)
(***************************************************************************)
\* the third call, lex_string(s) again, has been consumed to its end
FirstSourceLexedAgain ==
  /\ Len(history) = 2
  /\ LexEnded

SameAsOnNewLexer ==
  FirstSourceLexedAgain =>
    /\ string_ = history[1].string_
    /\ yielded = history[1].yielded
    /\ gen_pc = history[1].gen_pc
    /\ exception = history[1].exception

C16_NothingLeftBehind ==
  /\ []SameAsOnNewLexer
  /\ [][gen_pc' = "raised" => yielded' = yielded]_gen_vars

\* the call in between was given up at a yield, or ended by an exception,
\* after it had moved the cursor, and the third call gave tokens
C16_Witness ==
  /\ FirstSourceLexedAgain
  /\ history[2].gen_pc \in { "suspended", "raised" }
  /\ Len(history[2].yielded) >= 1
  /\ Len(yielded) >= 2

(***************************************************************************)
(* C17.  Two generators on two Lexers: however their next() calls are      *)
(* interleaved, each yields the tokens it yields when it is consumed       *)
(* alone, and ends the same way.  On one Lexer there is an interleaving    *)
(* after which a generator has yielded other tokens than alone.            *)
(***************************************************************************)
\* list(Lexer(token_mapping).lex_string(source)): the loop of lex_string
\* run to its end without a stop at the yield
RECURSIVE consumed(_, _)
consumed(self, tokens_) ==
  CHOOSE end \in
    { IF got.raised
        THEN [ gen_pc |-> "raised", yielded |-> tokens_,
               exception |-> got.exception ]
      ELSE IF got.token.type = "EOF"
        THEN [ gen_pc |-> "finished", yielded |-> tokens_,
               exception |-> NoException ]
      ELSE consumed(got.self, Append(tokens_, got.token)) :
      got \in { _get_next_token(self) } } : TRUE

alone(source) ==
  IF Len(source) = 0
    THEN [ gen_pc |-> "raised", yielded |-> << >>,
           exception |-> Raised("IndexError", 0, Unset) ]
    ELSE consumed([ string |-> source, curser |-> 0,
                    current_char |-> source[1] ], << >>)

IsPrefix(short, long) ==
  /\ Len(short) <= Len(long)
  /\ SubSeq(long, 1, Len(short)) = short

\* two generators are held
Interleaving == other.gen_pc # "none"

\* a generator at pc with yielded_ and exception_ is where the generator
\* consumed alone on source was, or ended
AsAlone(source, pc, yielded_, exception_) ==
  /\ IsPrefix(yielded_, alone(source).yielded)
  /\ pc \in { "finished", "raised" } =>
       /\ pc = alone(source).gen_pc
       /\ yielded_ = alone(source).yielded
       /\ exception_ = alone(source).exception

C17_SeparateLexersIndependent ==
  (Interleaving /\ ~other.shared) =>
    /\ AsAlone(string_, gen_pc, yielded, exception)
    /\ AsAlone(other.string_, other.gen_pc, other.yielded, other.exception)

\* on one Lexer: both generators were consumed, the next() calls took
\* turns, and the first generator did not yield what it yields alone
C17_Witness ==
  /\ Interleaving
  /\ other.shared
  /\ LexEnded
  /\ other.gen_pc \in { "finished", "raised" }
  /\ yielded # alone(string_).yielded

====
